---- MODULE Spec2Model ----
(***************************************************************************)
(* Model of the blending LP builder, src/lp_blender.cpp (main).  The       *)
(* program is one sequential run: build the column arrays, hand them to    *)
(* the solver, build the row bounds and the triplet matrix, hand them to   *)
(* the solver, solve, report.                                              *)
(*                                                                         *)
(* Numbers.  Every double of the program is represented by the integer     *)
(* number of hundredths it denotes (10.0 is 1000, 0.60 is 60, 100.0 is     *)
(* 10000); the product of two doubles is Mul.  The data used keep every    *)
(* product exact.  The solver's infinity sentinel 1.0e+20 is represented   *)
(* by a value above every finite bound the model can produce.              *)
(*                                                                         *)
(* Indices.  Arrays are TLA+ sequences; the C++ element a[i] is a[i+1].    *)
(* Row and column indices stored in the triplets are the 0-based integers  *)
(* the program stores.                                                     *)
(***************************************************************************)
EXTENDS Integers, Sequences, FiniteSets, TLC

\* ------------------------------------------------------------------ bounds
\* number of feed labels the data may declare (labels A, B, C, D, ...)
MaxFeeds == 3
\* number of component labels the data may declare (labels X, Y, Z, W, ...)
MaxComps == 3
\* the solver may return MaxSol + 1 different solution vectors
MaxSol == 1
\* TOTAL_BLEND ranges over 0 .. MaxBlendSteps multiples of 50.0
MaxBlendSteps == 2
\* a REQ_MIN fraction ranges over 0 .. MaxReqSteps multiples of 0.10
MaxReqSteps == 4

\* ------------------------------------------------------- program constants
\* const double TOTAL_BLEND = 100.0
TOTAL_BLEND_DATA == 10000
\* 1.0e+20, the "infinity" bound of the solver interface
Infinity == 2000000000
\* the literal 3 of "new double[3]" and of "model.addRows(3, ...)"
NumRowsDeclared == 3

\* ----------------------------------------------------------------- helpers
\* product of two doubles, in hundredths
Mul(a, b) == (a * b) \div 100

FeedUniverse == <<"A", "B", "C", "D">>
CompUniverse == <<"X", "Y", "Z", "W">>
FeedLabels == {FeedUniverse[i] : i \in 1..MaxFeeds}
CompLabels == {CompUniverse[i] : i \in 1..MaxComps}

\* the ordered label lists a vector<string> of distinct labels can hold
Lists(S) ==
  UNION {{s \in [1..k -> S] : \A i, j \in 1..k : i # j => s[i] # s[j]} :
         k \in 0..Cardinality(S)}

\* COSTS = {{"A", 10.0}, {"B", 12.0}, {"C", 8.0}}, and 9.0 for a further feed
CostData(f) ==
  CASE f = "A" -> 1000 [] f = "B" -> 1200 [] f = "C" -> 800 [] OTHER -> 900

\* CONTENT = {A: {X .60, Y .10}, B: {X .30, Y .50}, C: {X .20, Y .30}},
\* with fractions for the further labels
ContentData(f, c) ==
  CASE f = "A" /\ c = "X" -> 60 [] f = "A" /\ c = "Y" -> 10
    [] f = "B" /\ c = "X" -> 30 [] f = "B" /\ c = "Y" -> 50
    [] f = "C" /\ c = "X" -> 20 [] f = "C" /\ c = "Y" -> 30
    [] f = "D" /\ c = "X" -> 40 [] f = "D" /\ c = "Y" -> 20
    [] c = "Z" -> 25
    [] OTHER -> 15

\* REQ_MIN = {{"X", 0.40}, {"Y", 0.30}}, and minima for the further labels
ReqMinData(c) ==
  CASE c = "X" -> 40 [] c = "Y" -> 30 [] c = "Z" -> 20 [] OTHER -> 10

\* The parameter tables of a build differ from the full tables in at most one
\* place: one entry absent, or one content fraction equal to 0.0.
Deviations ==
  {[kind |-> "none", f |-> "", c |-> ""]}
  \cup {[kind |-> "noCost", f |-> f, c |-> ""] : f \in FeedLabels}
  \cup {[kind |-> k, f |-> f, c |-> c] :
          k \in {"noContent", "zeroContent"}, f \in FeedLabels, c \in CompLabels}
  \cup {[kind |-> "noReq", f |-> "", c |-> c] : c \in CompLabels}

CostsOf(d) ==
  [f \in FeedLabels \ (IF d.kind = "noCost" THEN {d.f} ELSE {}) |-> CostData(f)]

ContentOf(d) ==
  [f \in FeedLabels |->
     [c \in CompLabels \ (IF d.kind = "noContent" /\ d.f = f THEN {d.c} ELSE {})
        |-> IF d.kind = "zeroContent" /\ d.f = f /\ d.c = c
            THEN 0 ELSE ContentData(f, c)]]

ReqMinOf(d) ==
  [c \in CompLabels \ (IF d.kind = "noReq" THEN {d.c} ELSE {}) |-> ReqMinData(c)]

\* ------------------------------------------------------------------- state
VARIABLES
  FEEDS, COMPONENTS, COSTS, CONTENT, REQ_MIN, TOTAL_BLEND,  \* the data
  pc,                                  \* position of main
  numVars, columnLower, columnUpper, objective,
  rowLower, rowUpper, rowIndices, columnIndices, elements,
  model,                               \* the ClpSimplex object
  out                                  \* what was written to cout

data == <<FEEDS, COMPONENTS, COSTS, CONTENT, REQ_MIN, TOTAL_BLEND>>
colArrays == <<numVars, columnLower, columnUpper, objective>>
rowArrays == <<rowLower, rowUpper>>
matrix == <<rowIndices, columnIndices, elements>>
vars == <<data, pc, colArrays, rowArrays, matrix, model, out>>

\* ClpSimplex model; : an empty problem, not solved
EmptyModel ==
  [numCols |-> 0, colLower |-> <<>>, colUpper |-> <<>>, obj |-> <<>>,
   numRows |-> 0, rowLower |-> <<>>, rowUpper |-> <<>>,
   rowIdx |-> <<>>, colIdx |-> <<>>, elem |-> <<>>,
   hasCols |-> FALSE, hasRows |-> FALSE, solved |-> FALSE, status |-> "none",
   objValue |-> 0, solution |-> <<>>]

Start ==
  /\ pc = "columns"
  /\ numVars = 0 /\ columnLower = <<>> /\ columnUpper = <<>> /\ objective = <<>>
  /\ rowLower = <<>> /\ rowUpper = <<>>
  /\ rowIndices = <<>> /\ columnIndices = <<>> /\ elements = <<>>
  /\ model = EmptyModel
  /\ out = <<>>

\* any label lists, the tables with at most one deviation, TOTAL_BLEND = 100.0
Init ==
  /\ FEEDS \in Lists(FeedLabels)
  /\ COMPONENTS \in Lists(CompLabels)
  /\ \E d \in Deviations :
       COSTS = CostsOf(d) /\ CONTENT = ContentOf(d) /\ REQ_MIN = ReqMinOf(d)
  /\ TOTAL_BLEND = TOTAL_BLEND_DATA
  /\ Start

\* ------------------------------------------------- 3. VARIABLES (columns)
\* COSTS.at(feed) throws std::out_of_range for some feed of the list
CostMissing(feeds, costs) == \E i \in 1..Len(feeds) : feeds[i] \notin DOMAIN costs

\* columnLower[i] = 0.0
ColumnLowerArray(n) == [i \in 1..n |-> 0]

\* columnUpper[i] = 1.0e+20
ColumnUpperArray(n) == [i \in 1..n |-> Infinity]

\* a slip: the cost is taken from the feed list read from its other end
ObjectiveArray_Reversed(feeds, costs) ==
  [i \in 1..Len(feeds) |-> costs[feeds[Len(feeds) + 1 - i]]]

\* objective[i] = COSTS.at(FEEDS[i])
ObjectiveArray(feeds, costs) == [i \in 1..Len(feeds) |-> costs[feeds[i]]]

\* the loop over the feeds; an uncaught exception ends the program
BuildColumns ==
  /\ pc = "columns"
  /\ IF CostMissing(FEEDS, COSTS)
     THEN /\ numVars' = Len(FEEDS)
          /\ pc' = "aborted"
          /\ UNCHANGED <<columnLower, columnUpper, objective>>
     ELSE /\ numVars' = Len(FEEDS)
          /\ columnLower' = ColumnLowerArray(Len(FEEDS))
          /\ columnUpper' = ColumnUpperArray(Len(FEEDS))
          /\ objective' = ObjectiveArray(FEEDS, COSTS)
          /\ pc' = "addColumns"
  /\ UNCHANGED <<data, rowArrays, matrix, model, out>>

\* model.addColumns(numVars, columnLower, columnUpper, objective); delete[]
AddColumns ==
  /\ pc = "addColumns"
  /\ model' = [model EXCEPT !.numCols = numVars, !.colLower = columnLower,
                            !.colUpper = columnUpper, !.obj = objective,
                            !.hasCols = TRUE]
  /\ columnLower' = <<>> /\ columnUpper' = <<>> /\ objective' = <<>>
  /\ pc' = "rowBounds"
  /\ UNCHANGED <<data, numVars, rowArrays, matrix, out>>

\* ------------------------------------------------ 4. CONSTRAINTS (row bounds)
\* the labels whose minima the row bounds are taken from
RowBoundLabels == <<"X", "Y">>

\* REQ_MIN.at("X") or REQ_MIN.at("Y") throws
ReqMissing(req) == \E k \in 1..Len(RowBoundLabels) : RowBoundLabels[k] \notin DOMAIN req

\* rowLower[0] = TOTAL_BLEND; rowLower[1] = REQ_MIN.at("X") * TOTAL_BLEND;
\* rowLower[2] = REQ_MIN.at("Y") * TOTAL_BLEND
RowLowerArray(req, tb) ==
  <<tb, Mul(req[RowBoundLabels[1]], tb), Mul(req[RowBoundLabels[2]], tb)>>

\* a slip: the equality row is given the upper bound of a >= row
RowUpperArray_AllOpen(tb) == <<Infinity, Infinity, Infinity>>

\* rowUpper[0] = TOTAL_BLEND; rowUpper[1] = rowUpper[2] = 1.0e+20
RowUpperArray(tb) == <<tb, Infinity, Infinity>>

BuildRowBounds ==
  /\ pc = "rowBounds"
  /\ IF ReqMissing(REQ_MIN)
     THEN /\ pc' = "aborted"
          /\ UNCHANGED rowArrays
     ELSE /\ rowLower' = RowLowerArray(REQ_MIN, TOTAL_BLEND)
          /\ rowUpper' = RowUpperArray(TOTAL_BLEND)
          /\ pc' = "totalFlow"
  /\ UNCHANGED <<data, colArrays, matrix, model, out>>

\* --------------------------------------------- 5. the constraint matrix
\* a slip: every total-flow triplet is pushed for column 0
TotalFlowTriplets_SameColumn(n) ==
  [i \in 1..n |-> [row |-> 0, col |-> 0, elem |-> 100]]

\* A. one triplet (0, i, 1.0) per variable
TotalFlowTriplets(n) == [i \in 1..n |-> [row |-> 0, col |-> i - 1, elem |-> 100]]

\* a slip: the content is looked up for the feed counted from the other end
\* of the list, so the element of column i belongs to another feed
ComponentTriplets_Shifted(feeds, comps, content) ==
  LET n == Len(feeds)
  IN  [k \in 1..(Len(comps) * n) |->
         LET j == (k - 1) \div n
             i == (k - 1) % n
         IN  [row |-> j + 1, col |-> i,
              elem |-> content[feeds[n - i]][comps[j + 1]]]]

\* B. for (j) for (i): the triplet (j + 1, i, CONTENT.at(FEEDS[i]).at(COMPONENTS[j]))
ComponentTriplets(feeds, comps, content) ==
  LET n == Len(feeds)
  IN  [k \in 1..(Len(comps) * n) |->
         LET j == (k - 1) \div n
             i == (k - 1) % n
         IN  [row |-> j + 1, col |-> i,
              elem |-> content[feeds[i + 1]][comps[j + 1]]]]

\* CONTENT.at(FEEDS[i]) or .at(component) throws for some pair the loop visits
ContentMissing(feeds, comps, content) ==
  \E j \in 1..Len(comps), i \in 1..Len(feeds) :
     \/ feeds[i] \notin DOMAIN content
     \/ comps[j] \notin DOMAIN content[feeds[i]]

Rows(t) == [k \in 1..Len(t) |-> t[k].row]
Cols(t) == [k \in 1..Len(t) |-> t[k].col]
Elems(t) == [k \in 1..Len(t) |-> t[k].elem]

BuildTotalFlow ==
  /\ pc = "totalFlow"
  /\ LET t == TotalFlowTriplets(numVars)
     IN  /\ rowIndices' = rowIndices \o Rows(t)
         /\ columnIndices' = columnIndices \o Cols(t)
         /\ elements' = elements \o Elems(t)
  /\ pc' = "componentRows"
  /\ UNCHANGED <<data, colArrays, rowArrays, model, out>>

BuildComponentRows ==
  /\ pc = "componentRows"
  /\ IF ContentMissing(FEEDS, COMPONENTS, CONTENT)
     THEN /\ pc' = "aborted"
          /\ UNCHANGED matrix
     ELSE /\ LET t == ComponentTriplets(FEEDS, COMPONENTS, CONTENT)
             IN  /\ rowIndices' = rowIndices \o Rows(t)
                 /\ columnIndices' = columnIndices \o Cols(t)
                 /\ elements' = elements \o Elems(t)
          /\ pc' = "addRows"
  /\ UNCHANGED <<data, colArrays, rowArrays, model, out>>

\* What the call of addRows can do.  &rowIndices[0] of an empty vector, and a
\* triplet whose row has no bounds in the arrays of length 3, are outside what
\* the language and the interface define: the call returns or the program dies.
AddRowsOutcomes(rows) ==
  IF rows = <<>> \/ \E k \in 1..Len(rows) : rows[k] >= NumRowsDeclared
  THEN {"returns", "crashes"} ELSE {"returns"}

\* model.addRows(3, rowLower, rowUpper, elements.size(), &rowIndices[0],
\*               &columnIndices[0], &elements[0]); delete[]
AddRows ==
  /\ pc = "addRows"
  /\ \E o \in AddRowsOutcomes(rowIndices) :
       IF o = "returns"
       THEN /\ model' = [model EXCEPT !.numRows = NumRowsDeclared,
                                      !.rowLower = rowLower, !.rowUpper = rowUpper,
                                      !.rowIdx = rowIndices, !.colIdx = columnIndices,
                                      !.elem = elements, !.hasRows = TRUE]
            /\ rowLower' = <<>> /\ rowUpper' = <<>>
            /\ pc' = "solve"
       ELSE /\ pc' = "crashed"
            /\ UNCHANGED <<model, rowArrays>>
  /\ UNCHANGED <<data, colArrays, matrix, out>>

\* ------------------------------------------------------------ 6. the solve
Statuses == {"optimal", "infeasible", "unbounded", "error"}

\* the column solutions the solver may leave in the model
Solutions(n) == {[i \in 1..n |-> k * i * 100] : k \in 0..MaxSol}

RECURSIVE Dot(_, _, _)
Dot(a, b, n) == IF n = 0 THEN 0 ELSE Dot(a, b, n - 1) + Mul(a[n], b[n])

\* model.setObjSense(1.0); model.initialSolve(): the solver is not part of the
\* repository; it ends with any status and any column solution
InitialSolve ==
  /\ pc = "solve"
  /\ \E s \in Statuses, sol \in Solutions(model.numCols) :
       model' = [model EXCEPT !.solved = TRUE, !.status = s, !.solution = sol,
                              !.objValue = Dot(model.obj, sol, model.numCols)]
  /\ pc' = "report"
  /\ UNCHANGED <<data, colArrays, rowArrays, matrix, out>>

\* ---------------------------------------------------------- 7. the report
\* a slip: the solution is read and printed whatever the status
ReportLines_Always(feeds, n, m) ==
  <<[line |-> "Status: Optimal"],
    [line |-> "Minimum Total Cost", value |-> m.objValue]>>
  \o [i \in 1..n |-> [line |-> "Feed", label |-> feeds[i], value |-> m.solution[i]]]

\* if (model.isProvenOptimal()) { status, objective value, one line per feed }
\* else { status }
ReportLines(feeds, n, m) ==
  IF m.status = "optimal"
  THEN <<[line |-> "Status: Optimal"],
         [line |-> "Minimum Total Cost", value |-> m.objValue]>>
       \o [i \in 1..n |-> [line |-> "Feed", label |-> feeds[i], value |-> m.solution[i]]]
  ELSE <<[line |-> "Status: Not Optimal", status |-> m.status]>>

Report ==
  /\ pc = "report"
  /\ out' = out \o ReportLines(FEEDS, numVars, model)
  /\ pc' = "return"
  /\ UNCHANGED <<data, colArrays, rowArrays, matrix, model>>

\* return 0
Return ==
  /\ pc = "return"
  /\ pc' = "done"
  /\ UNCHANGED <<data, colArrays, rowArrays, matrix, model, out>>

Next ==
  \/ BuildColumns
  \/ AddColumns
  \/ BuildRowBounds
  \/ BuildTotalFlow
  \/ BuildComponentRows
  \/ AddRows
  \/ InitialSolve
  \/ Report
  \/ Return

Spec == Init /\ [][Next]_vars

\* any label lists, every table complete
InitSolve ==
  /\ FEEDS \in Lists(FeedLabels)
  /\ COMPONENTS \in Lists(CompLabels)
  /\ COSTS = [f \in FeedLabels |-> CostData(f)]
  /\ CONTENT = [f \in FeedLabels |-> [c \in CompLabels |-> ContentData(f, c)]]
  /\ REQ_MIN = [c \in CompLabels |-> ReqMinData(c)]
  /\ TOTAL_BLEND = TOTAL_BLEND_DATA
  /\ Start

\* the sequential program takes its next step whenever it has one
FairSpec == InitSolve /\ [][Next]_vars /\ WF_vars(Next)

\* The declared lists X, Y of the components; the feeds in any order; the
\* minima and TOTAL_BLEND over ranges of values; a minimum may be absent.
BlendValues == {k * 5000 : k \in 0..MaxBlendSteps}
ReqValues == {k * 10 : k \in 0..MaxReqSteps}

InitValues ==
  /\ FEEDS \in Lists(FeedLabels)
  /\ COMPONENTS = <<"X", "Y">>
  /\ COSTS = [f \in FeedLabels |-> CostData(f)]
  /\ CONTENT = [f \in FeedLabels |-> [c \in CompLabels |-> ContentData(f, c)]]
  /\ REQ_MIN \in UNION {[S -> ReqValues] : S \in {{"X", "Y"}, {"X"}, {"Y"}}}
  /\ TOTAL_BLEND \in BlendValues
  /\ Start

SpecValues == InitValues /\ [][Next]_vars

\* ====================================================================
\* Properties
\* ====================================================================

\* coefficient of column c in row r of the matrix handed to the solver:
\* the sum of the elements of the triplets at (r, c)
RECURSIVE SumAt(_, _, _, _)
SumAt(m, r, c, k) ==
  IF k = 0 THEN 0
  ELSE SumAt(m, r, c, k - 1)
       + (IF m.rowIdx[k] = r /\ m.colIdx[k] = c THEN m.elem[k] ELSE 0)

Coefficient(m, r, c) == SumAt(m, r, c, Len(m.rowIdx))

RowCoefficients(m, r) == [c \in 1..m.numCols |-> Coefficient(m, r, c - 1)]

CanonicalData ==
  /\ FEEDS = <<"A", "B", "C">>
  /\ COMPONENTS = <<"X", "Y">>
  /\ \A f \in {"A", "B", "C"} : f \in DOMAIN COSTS /\ COSTS[f] = CostData(f)
  /\ \A f \in {"A", "B", "C"}, c \in {"X", "Y"} :
       c \in DOMAIN CONTENT[f] /\ CONTENT[f][c] = ContentData(f, c)
  /\ \A c \in {"X", "Y"} : c \in DOMAIN REQ_MIN /\ REQ_MIN[c] = ReqMinData(c)
  /\ TOTAL_BLEND = TOTAL_BLEND_DATA

\* C1: for the canonical data the model handed to the solver has 3 columns
\* with bounds [0, infinity] and objective (10, 12, 8), and 3 rows: row 0
\* [100, 100] with coefficients (1, 1, 1), row 1 [40, infinity] with
\* (.60, .30, .20), row 2 [30, infinity] with (.10, .50, .30).
C1_CanonicalModel ==
  (CanonicalData /\ model.hasRows) =>
    /\ model.numCols = 3
    /\ model.colLower = <<0, 0, 0>>
    /\ model.colUpper = <<Infinity, Infinity, Infinity>>
    /\ model.obj = <<1000, 1200, 800>>
    /\ model.numRows = 3
    /\ model.rowLower = <<10000, 4000, 3000>>
    /\ model.rowUpper = <<10000, Infinity, Infinity>>
    /\ \A k \in 1..Len(model.rowIdx) :
         model.rowIdx[k] \in 0..2 /\ model.colIdx[k] \in 0..2
    /\ RowCoefficients(model, 0) = <<100, 100, 100>>
    /\ RowCoefficients(model, 1) = <<60, 30, 20>>
    /\ RowCoefficients(model, 2) = <<10, 50, 30>>

C1_Witness == CanonicalData /\ model.hasRows /\ pc = "solve"

\* C2: for a non-empty feed list the number of rows declared to the solver
\* (the count passed to addRows, the length of the row-bound arrays) is
\* 1 + |COMPONENTS|, whatever the component list.
C2_RowCount ==
  (FEEDS # <<>> /\ model.hasRows) =>
    /\ model.numRows = 1 + Len(COMPONENTS)
    /\ Len(model.rowLower) = 1 + Len(COMPONENTS)
    /\ Len(model.rowUpper) = 1 + Len(COMPONENTS)

\* C3: the feed at position i of FEEDS has column i: the columns handed to
\* the solver are exactly 0 .. |FEEDS| - 1, and the objective coefficient and
\* the bounds stored at column i are those of the feed at position i.
C3_ColumnBijection ==
  model.hasCols =>
    /\ model.numCols = Len(FEEDS)
    /\ DOMAIN model.obj = 1..Len(FEEDS)
    /\ DOMAIN model.colLower = 1..Len(FEEDS)
    /\ DOMAIN model.colUpper = 1..Len(FEEDS)
    /\ \A i \in 1..Len(FEEDS) :
         /\ model.obj[i] = COSTS[FEEDS[i]]
         /\ model.colLower[i] = 0
         /\ model.colUpper[i] = Infinity

C3_Witness ==
  /\ model.hasCols
  /\ Len(FEEDS) = 3
  /\ FEEDS[1] = "C"
  /\ model.obj[1] = CostData("C")

\* C4: the total-flow row handed to the solver has lower = upper =
\* TOTAL_BLEND, and the row of each component has lower = REQ_MIN(component)
\* * TOTAL_BLEND and upper = the infinity sentinel, for all values of
\* TOTAL_BLEND and REQ_MIN.
C4_RowBounds ==
  model.hasRows =>
    /\ model.rowLower[1] = TOTAL_BLEND
    /\ model.rowUpper[1] = TOTAL_BLEND
    /\ \A j \in 1..Len(COMPONENTS) :
         /\ j + 1 \in DOMAIN model.rowLower
         /\ model.rowLower[j + 1] = Mul(REQ_MIN[COMPONENTS[j]], TOTAL_BLEND)
         /\ model.rowUpper[j + 1] = Infinity

C4_Witness ==
  /\ model.hasRows
  /\ TOTAL_BLEND = 5000
  /\ REQ_MIN["X"] = 20 /\ REQ_MIN["Y"] = 10
  /\ model.rowLower = <<5000, 1000, 500>>

\* C5: row 0 is the total-flow row, and row j + 1 is the row of the component
\* at position j of COMPONENTS: its coefficients are the content of that
\* component in every feed AND its lower bound is the minimum of that
\* component times TOTAL_BLEND, in whatever order COMPONENTS is declared.
C5_RowOrder ==
  model.hasRows =>
    /\ RowCoefficients(model, 0) = [i \in 1..Len(FEEDS) |-> 100]
    /\ \A j \in 1..Len(COMPONENTS) :
         /\ RowCoefficients(model, j) =
              [i \in 1..Len(FEEDS) |-> CONTENT[FEEDS[i]][COMPONENTS[j]]]
         /\ j + 1 \in DOMAIN model.rowLower
         /\ COMPONENTS[j] \in DOMAIN REQ_MIN
         /\ model.rowLower[j + 1] = Mul(REQ_MIN[COMPONENTS[j]], TOTAL_BLEND)

\* the contribution of the variable of column c to row r
Contribution(r, c) ==
  IF r = 0 THEN 100 ELSE CONTENT[FEEDS[c + 1]][COMPONENTS[r]]

\* C6: the triplet list never holds two entries with the same (row, column)
\* pair, and the coefficient of an entry is the whole contribution of that
\* variable to that row.
C6_NoDuplicateTriplets ==
  /\ \A k1, k2 \in 1..Len(rowIndices) :
       (rowIndices[k1] = rowIndices[k2] /\ columnIndices[k1] = columnIndices[k2])
         => k1 = k2
  /\ Len(columnIndices) = Len(rowIndices) /\ Len(elements) = Len(rowIndices)
  /\ \A k \in 1..Len(rowIndices) :
       elements[k] = Contribution(rowIndices[k], columnIndices[k])

C6_Witness ==
  /\ pc = "addRows"
  /\ Len(FEEDS) = 3 /\ Len(COMPONENTS) = 2
  /\ Len(rowIndices) = 9

\* a value the build needs is absent from its table
NeededValueMissing ==
  \/ \E i \in 1..Len(FEEDS) : FEEDS[i] \notin DOMAIN COSTS
  \/ \E i \in 1..Len(FEEDS), j \in 1..Len(COMPONENTS) :
       FEEDS[i] \notin DOMAIN CONTENT \/ COMPONENTS[j] \notin DOMAIN CONTENT[FEEDS[i]]
  \/ \E j \in 1..Len(COMPONENTS) : COMPONENTS[j] \notin DOMAIN REQ_MIN

\* C7: when a needed parameter value is missing the build aborts: the rows
\* are never handed to the solver, the solver is never invoked and nothing
\* is reported.
C7_MissingValueAborts ==
  NeededValueMissing =>
    /\ ~model.hasRows
    /\ ~model.solved
    /\ out = <<>>
    /\ pc \notin {"solve", "report", "return", "done"}

\* what cout must hold at the end: the status; with it the objective value
\* and one value per feed, under the label of the feed of that column,
\* exactly when the status is optimal
ReportIsFaithful ==
  IF model.status = "optimal"
  THEN /\ Len(out) = 2 + Len(FEEDS)
       /\ out[1] = [line |-> "Status: Optimal"]
       /\ out[2] = [line |-> "Minimum Total Cost", value |-> model.objValue]
       /\ \A i \in 1..Len(FEEDS) :
            out[2 + i] = [line |-> "Feed", label |-> FEEDS[i],
                          value |-> model.solution[i]]
  ELSE out = <<[line |-> "Status: Not Optimal", status |-> model.status]>>

\* C8: after the solve, whatever the status (optimal, infeasible, unbounded,
\* error), the program reaches its normal end having reported the status;
\* the objective value and the column solution are reported only for the
\* status optimal, each value under the label of the feed of its column.
C8_ReportsEveryStatus ==
  (model.solved /\ pc = "report") ~> (pc = "done" /\ ReportIsFaithful)

C8_Witness ==
  /\ pc = "done"
  /\ model.status = "optimal"
  /\ Len(FEEDS) = 3
  /\ Len(out) = 5
  /\ out[5].label = FEEDS[3] /\ out[5].value = 300

\* C9: a row without a non-zero coefficient is never handed to the solver.
C9_NoEmptyRow ==
  model.hasRows =>
    \A r \in 0..(model.numRows - 1) :
       \E k \in 1..Len(model.rowIdx) : model.rowIdx[k] = r /\ model.elem[k] # 0

\* C10: every triplet has a row index below the number of rows declared to
\* the solver and a column index below numVars.
C10_TripletsInRange ==
  /\ pc = "addRows" =>
       \A k \in 1..Len(rowIndices) :
          /\ 0 <= rowIndices[k] /\ rowIndices[k] < Len(rowLower)
          /\ 0 <= columnIndices[k] /\ columnIndices[k] < numVars
  /\ model.hasRows =>
       \A k \in 1..Len(model.rowIdx) :
          /\ 0 <= model.rowIdx[k] /\ model.rowIdx[k] < model.numRows
          /\ 0 <= model.colIdx[k] /\ model.colIdx[k] < model.numCols

====
